---- MODULE Spec2Model ----
(***************************************************************************)
(* Airline Analytics Dashboard, src/frontend/app.js.                       *)
(*                                                                         *)
(* The page is a single-threaded event loop: every handler runs to         *)
(* completion, and the only suspension points are the awaits on fetch()    *)
(* and response.json() in loadFilteredData and loadInitialData.  An action *)
(* of this module is one such run-to-completion step.                      *)
(***************************************************************************)
EXTENDS Integers, Sequences, FiniteSets, TLC

VARIABLES
    API_BASE_URL,       \* app.js:2   the base URL the page was deployed with
    currentFlightData,  \* app.js:6   the flight collection
    fromAirport,        \* #fromAirport input value
    toAirport,          \* #toAirport input value
    dataLimit,          \* #dataLimit select value (as parsed by parseInt)
    loadingShown,       \* #loadingOverlay has class 'show'
    pending,            \* loadFilteredData calls suspended at their await, oldest first
    initPending,        \* loadInitialData is suspended at its await
    view,               \* what the DOM and the chart widgets show
    last,               \* the handler step that ran last, and what it was given
    genArgs,            \* arguments of a direct generateSampleData call
    genTape,            \* the random draws of a function called on its own
    genFlights,         \* the return value of generateSampleData
    genPc,              \* "call" before generateSampleData ran, "done" after;
                        \* "render"/"rendered" around updateDashboard and
                        \* "trend"/"trendDone" around generatePriceTrend
    priceData           \* the return value of generatePriceTrend

vars == <<API_BASE_URL, currentFlightData, fromAirport, toAirport, dataLimit, loadingShown,
          pending, initPending, view, last, genArgs, genTape, genFlights, genPc,
          priceData>>

genVars == <<genArgs, genTape, genFlights, genPc, priceData>>

----------------------------------------------------------------------------
(* Bounds of the model.                                                    *)

\* The data-limit select offers 50, 100, 200 and 500 and starts at 50; the
\* model scales the default down and keeps one larger option.  With two
\* records the sample data of two page loads can differ in its statistics.
DefaultLimit == 2

\* How many loadFilteredData calls may be in flight at once: under Spec, and
\* under RaceSpec, which is about overlapping calls.
MaxInFlight == 1

MaxPending == 2

\* Largest count given to generateSampleData when it is called directly.
MaxCount == 2

\* Rendering on its own: every collection of up to MaxLen records over four
\* records, two-route collections of up to MaxRows records (more than the
\* table shows), and collections with up to MaxKeys routes and airlines (more
\* than the charts show).
MaxLen == 3

MaxRows == 40

MaxKeys == 9

LimitOptions == {DefaultLimit, DefaultLimit + 1}

\* A search response carries up to one record more than the largest limit.
MaxResp == DefaultLimit + 2

----------------------------------------------------------------------------
(* JavaScript helpers.                                                     *)

Min(a, b) == IF a < b THEN a ELSE b

\* Array.prototype.slice(0, n) for n >= 0
Slice0(s, n) == SubSeq(s, 1, Min(n, Len(s)))

\* The value of an out-of-range array read.
Undefined == "undefined"

\* arr[i] with a zero-based index
ArrayAt(arr, i) == IF i >= 0 /\ i < Len(arr) THEN arr[i + 1] ELSE Undefined

\* Math.random() returns k / RandRes for some k in 0 .. RandRes-1; RandRes is
\* fine enough for every index of both airport lists to be drawn.
RandRes == 16 * 15

\* Math.floor(Math.random() * n) for the draw k
FloorRandom(k, n) == (k * n) \div RandRes

\* String.prototype.toUpperCase on the airport codes the model enters
ToUpperCase(s) ==
    CASE s = "jfk" -> "JFK"
      [] s = "lax" -> "LAX"
      [] OTHER -> s

\* JavaScript truthiness of a string
Truthy(s) == s # ""

----------------------------------------------------------------------------
(* generateSampleData, app.js:96-133                                       *)

airlines == <<"American Airlines", "Delta Air Lines", "United Airlines",
              "Southwest Airlines", "JetBlue Airways", "Alaska Airlines",
              "Spirit Airlines", "Frontier Airlines">>

airports == <<"JFK", "LAX", "ORD", "DFW", "DEN", "SFO", "LAS", "MIA",
              "BOS", "SEA", "ATL", "PHX", "LGA", "EWR", "IAD", "DCA">>

AirportSet == {airports[i] : i \in 1..Len(airports)}

\* airports.filter(a => a !== fromAirport)
AirportsExcept(from) == SelectSeq(airports, LAMBDA a : a # from)

\* origin || airports[Math.floor(Math.random() * airports.length)]
PickOrigin(origin, k) ==
    IF Truthy(origin) THEN origin
    ELSE ArrayAt(airports, FloorRandom(k, Len(airports)))

\* Mutation: the re-draw index ranges over the whole list, not the list less one.
PickDestinationFullRange(destination, from, k) ==
    IF Truthy(destination) THEN destination
    ELSE ArrayAt(AirportsExcept(from), FloorRandom(k, Len(airports)))

\* destination || airports.filter(a => a !== fromAirport)
\*                    [Math.floor(Math.random() * (airports.length - 1))]
PickDestination(destination, from, k) ==
    IF Truthy(destination) THEN destination
    ELSE ArrayAt(AirportsExcept(from), FloorRandom(k, Len(airports) - 1))

statuses == <<"On Time", "Delayed", "Boarding", "Departed">>

\* airline.split(' ')[0].substring(0, 2).toUpperCase()
AirlineCode(airline) ==
    CASE airline = "American Airlines"  -> "AM"
      [] airline = "Delta Air Lines"    -> "DE"
      [] airline = "United Airlines"    -> "UN"
      [] airline = "Southwest Airlines" -> "SO"
      [] airline = "JetBlue Airways"    -> "JE"
      [] airline = "Alaska Airlines"    -> "AL"
      [] airline = "Spirit Airlines"    -> "SP"
      [] airline = "Frontier Airlines"  -> "FR"

\* new Date().toISOString().split('T')[0]: the day the page runs on
Today == "2025-01-01"

\* The draws of one iteration, in the order the loop takes them: origin,
\* destination, airline, price, flight number, departure hour and minute,
\* duration, arrival-minute offset, duration minutes, status.  Here all 0.
ZeroDraws ==
    [ o |-> 0, d |-> 0, a |-> 0, p |-> 0, n |-> 0, h |-> 0, m |-> 0, f |-> 0,
      x |-> 0, y |-> 0, s |-> 0 ]

\* One iteration of the loop; d holds the iteration's draws.  A time
\* `HH:MM` is kept as its hour and minute, a duration `Hh Mm` as its hours
\* and minutes.
GenRecord(origin, destination, d) ==
    LET from            == PickOrigin(origin, d.o)
        to              == PickDestination(destination, from, d.d)
        airline         == ArrayAt(airlines, FloorRandom(d.a, Len(airlines)))
        departureHour   == FloorRandom(d.h, 24)
        departureMinute == FloorRandom(d.m, 60)
        flightDuration  == FloorRandom(d.f, 6) + 1
        arrivalHour     == (departureHour + flightDuration) % 24
        arrivalMinute   == (departureMinute + FloorRandom(d.x, 60)) % 60
    IN  [ flight_number  |-> AirlineCode(airline) \o ToString(FloorRandom(d.n, 9000) + 1000),
          airline        |-> airline,
          origin         |-> from,
          destination    |-> to,
          route          |-> from \o "-" \o to,
          departure_time |-> [hour |-> departureHour, minute |-> departureMinute],
          arrival_time   |-> [hour |-> arrivalHour, minute |-> arrivalMinute],
          price          |-> FloorRandom(d.p, 800) + 200,
          duration       |-> [hours |-> flightDuration, minutes |-> FloorRandom(d.y, 60)],
          status         |-> ArrayAt(statuses, FloorRandom(d.s, Len(statuses))),
          date           |-> Today ]

\* Mutation: the loop stops one iteration early.
generateSampleDataShort(limit, origin, destination, tape) ==
    [i \in 1..(IF limit > 0 THEN limit - 1 ELSE 0) |-> GenRecord(origin, destination, tape[i])]

\* for (let i = 0; i < limit; i++) flights.push({...}); return flights
generateSampleData(limit, origin, destination, tape) ==
    [i \in 1..limit |-> GenRecord(origin, destination, tape[i])]

----------------------------------------------------------------------------
(* Flight records that arrive from the search endpoint.                    *)

\* A JSON null in the flights list: reading a property of it throws.
Null == [null |-> TRUE]

S1 == [flight_number |-> "DL1234", airline |-> "Delta Air Lines",
       origin |-> "BOS", destination |-> "SEA", route |-> "BOS-SEA",
       departure_time |-> [hour |-> 8, minute |-> 5],
       arrival_time |-> [hour |-> 14, minute |-> 40],
       price |-> 350, duration |-> [hours |-> 6, minutes |-> 35],
       status |-> "On Time", date |-> Today]

S2 == [flight_number |-> "UA77", airline |-> "United Airlines",
       origin |-> "ORD", destination |-> "MIA", route |-> "ORD-MIA",
       departure_time |-> [hour |-> 23, minute |-> 30],
       arrival_time |-> [hour |-> 2, minute |-> 45],
       price |-> 425, duration |-> [hours |-> 3, minutes |-> 15],
       status |-> "Delayed", date |-> Today]

\* S1, S2, S1, ... and S2, S1, S2, ...
Alternating(first, n) ==
    [i \in 1..n |-> IF (i % 2 = 1) = first THEN S1 ELSE S2]

\* An empty list, a list shorter than the larger limit, and a list longer
\* than every limit.
WellFormedLists ==
    {Alternating(TRUE, n) : n \in {0, DefaultLimit, MaxResp}}

\* A list whose only entry is null.
MalformedLists == { <<Null>> }

\* How a search request can resolve:
\*   network   fetch() rejects
\*   http      the response is not ok
\*   badJson   the response is ok and response.json() rejects, or the body is
\*             not an object
\*   noFlights the response is ok and the body has no flights list
\*   flights   the response is ok and the body has a flights list
Responses ==
    {[kind |-> k, flights |-> <<>>] : k \in {"network", "http", "badJson", "noFlights"}}
    \cup {[kind |-> "flights", flights |-> fl] : fl \in WellFormedLists \cup MalformedLists}

IsFailure(resp) == resp.kind \in {"network", "http"}

\* Under RaceSpec: a failure, and the longest list.
RaceResponses ==
    {[kind |-> "network", flights |-> <<>>],
     [kind |-> "flights", flights |-> Alternating(TRUE, MaxResp)]}

----------------------------------------------------------------------------
(* Rendering, app.js:136-159, 283-347, 371-462                             *)

dashboardStats == [totalFlights |-> 300, uniqueRoutes |-> 10, airlines |-> 10, airports |-> 10]

\* a || b on numbers
OrElse(a, b) == IF a # 0 THEN a ELSE b

\* Math.round(a / b) for a >= 0, b > 0
RoundDiv(a, b) == (2 * a + b) \div (2 * b)

\* f.route, flight.airline, ... of a null entry throws a TypeError
Throws(flights) == \E i \in 1..Len(flights) : flights[i] = Null

\* The left operands of || in updateStatistics, app.js:145-148: the length
\* and the sizes of the three Sets.
Computed(flights) ==
    [ totalFlights |-> Len(flights),
      uniqueRoutes |-> Cardinality({flights[i].route : i \in 1..Len(flights)}),
      airlines     |-> Cardinality({flights[i].airline : i \in 1..Len(flights)}),
      airports     |-> Cardinality({flights[i].origin : i \in 1..Len(flights)}
                                   \cup {flights[i].destination : i \in 1..Len(flights)}) ]

\* Mutation: the defaults are only used for a collection without records.
StatisticsDefaultAll(flights) ==
    IF Len(flights) = 0 THEN dashboardStats
    ELSE [dashboardStats EXCEPT !.totalFlights = Len(flights)]

\* updateStatistics, app.js:144-153
Statistics(flights) ==
    [ name \in DOMAIN dashboardStats |->
        OrElse(Computed(flights)[name], dashboardStats[name]) ]

\* The p-th smallest member of the set of numbers S
Nth(S, p) == CHOOSE i \in S : Cardinality({j \in S : j < i}) = p - 1

\* The number a property key stands for when it is a canonical array index
\* ("0", "1", "2", ...), -1 for every other key; "1" and "2" are the ones a
\* record of the model carries.
ArrayIndex(k) ==
    CASE k = "1" -> 1
      [] k = "2" -> 2
      [] OTHER -> -1

\* The keys of an object filled by a forEach over s, in the order
\* Object.entries lists them: the array-index keys in ascending numeric
\* order, then the other keys in insertion order (the order of their first
\* positions in s).
KeysInOrder(s) ==
    LET firsts == {i \in 1..Len(s) : \A j \in 1..(i - 1) : s[j] # s[i]}
        ints   == {i \in firsts : ArrayIndex(s[i]) >= 0}
        strs   == firsts \ ints
        IntAt(p) == CHOOSE i \in ints :
                       Cardinality({j \in ints : ArrayIndex(s[j]) < ArrayIndex(s[i])}) = p - 1
    IN  [p \in 1..Cardinality(firsts) |->
            IF p <= Cardinality(ints) THEN s[IntAt(p)]
            ELSE s[Nth(strs, p - Cardinality(ints))]]

CountOf(s, k) == Cardinality({i \in 1..Len(s) : s[i] = k})

\* Object.entries(counts) for counts built over the key sequence s.  (Here
\* and below a value that is used often is bound through a singleton set, so
\* that TLC computes it once.)
Entries(s) ==
    CHOOSE r \in {[i \in 1..Len(ks) |-> [key |-> ks[i], count |-> CountOf(s, ks[i])]] :
                     ks \in {KeysInOrder(s)}} : TRUE

\* Where the stable descending sort puts es[i]: behind every entry with a
\* larger count and behind the earlier entries with the same count.
RankDesc(es, i) ==
    1 + Cardinality({j \in 1..Len(es) :
                        \/ es[j].count > es[i].count
                        \/ es[j].count = es[i].count /\ j < i})

\* .sort(([,a], [,b]) => b - a): descending by count, stable
SortDesc(es) ==
    CHOOSE r \in {[p \in 1..Len(e) |-> e[CHOOSE i \in 1..Len(e) : RankDesc(e, i) = p]] :
                     e \in {es}} : TRUE

Field(flights, name) == [i \in 1..Len(flights) |-> flights[i][name]]

\* updateChartsWithSampleData, app.js:325-340
SampleRouteChart ==
    [ labels |-> <<"JFK-LAX", "ORD-LAS", "DFW-DEN", "BOS-SFO", "MIA-LGA", "ATL-PHX", "SEA-IAD", "EWR-DCA">>,
      data   |-> <<45, 38, 32, 28, 25, 22, 18, 15>> ]

SampleAirlineChart ==
    [ labels |-> <<"American Airlines", "Delta Air Lines", "United Airlines",
                   "Southwest Airlines", "JetBlue Airways", "Alaska Airlines">>,
      data   |-> <<28, 25, 22, 15, 12, 8>> ]

\* Mutation: the entries are cut to 8 before they are sorted.
TopSeriesCutFirst(s) ==
    CHOOSE r \in {[ labels |-> [i \in 1..Len(top) |-> top[i].key],
                    data   |-> [i \in 1..Len(top) |-> top[i].count] ] :
                     top \in {SortDesc(Slice0(Entries(s), 8))}} : TRUE

\* The series of the top 8 keys, app.js:290-300 and 304-314
TopSeries(s) ==
    CHOOSE r \in {[ labels |-> [i \in 1..Len(top) |-> top[i].key],
                    data   |-> [i \in 1..Len(top) |-> top[i].count] ] :
                     top \in {Slice0(SortDesc(Entries(s)), 8)}} : TRUE

RouteChart(flights) ==
    IF Len(flights) = 0 THEN SampleRouteChart ELSE TopSeries(Field(flights, "route"))

AirlineChart(flights) ==
    IF Len(flights) = 0 THEN SampleAirlineChart ELSE TopSeries(Field(flights, "airline"))

\* Mutation: the table is not cut to 20 rows.
FlightTableUncut(flights) ==
    [ placeholder |-> (Len(flights) = 0), rows |-> flights ]

\* updateFlightTable, app.js:371-397: one row per record of displayData, or
\* the single "No flight data available" row.
FlightTable(flights) ==
    LET displayData == Slice0(flights, 20)
    IN  [ placeholder |-> (Len(displayData) = 0), rows |-> displayData ]

RECURSIVE SumPrices(_, _)
SumPrices(flights, route) ==
    IF flights = <<>> THEN 0
    ELSE SumPrices(Tail(flights), route)
         + (IF Head(flights).route = route THEN Head(flights).price ELSE 0)

RECURSIVE Pow2(_)
Pow2(e) == IF e = 0 THEN 1 ELSE 2 * Pow2(e - 1)

\* 2^e modulo n
RECURSIVE Pow2Mod(_, _)
Pow2Mod(e, n) == IF e = 0 THEN 1 % n ELSE (2 * Pow2Mod(e - 1, n)) % n

\* The least a >= b with c * 2^a >= n: for 1 <= c <= n, c / n lies in
\* [2^-a, 2^(1-a)).
RECURSIVE BinadeOf(_, _, _)
BinadeOf(c, n, b) == IF c * Pow2(b) >= n THEN b ELSE BinadeOf(c, n, b + 1)

\* The e with 2^e <= k < 2^(e+1), for k >= 1
RECURSIVE Log2Floor(_)
Log2Floor(k) == IF k < 2 THEN 0 ELSE 1 + Log2Floor(k \div 2)

\* Math.round((c / n) * 100) for 1 <= c <= n, app.js:450, in IEEE 754 double
\* arithmetic (round to nearest, ties to even, 53-bit significands).
\*   q = c / n is rounded to a multiple of u = 2^-(52+a); the remainder of
\*   c * 2^(52+a) by n is r, so q = c/n - (r/n) u when 2r < n and
\*   q = c/n + (1 - r/n) u otherwise.  q * 100 is rounded once more.
\*   Math.round gives k + 1 exactly when that product is at least k + 0.5,
\*   k being the integer part of 100 c / n.
\*   When 100 c / n is not k + 0.5 the two rounding errors, below 2^-45, cannot
\*   carry the product across k + 0.5, which 100 c / n misses by 1 / (2 n) or
\*   more.  When 100 c / n = k + 0.5 and q was rounded up, the product is at
\*   least k + 0.5; when q was rounded down the product falls short by
\*   100 (r/n) u and is rounded back up to k + 0.5 only if that is at most
\*   half the distance from k + 0.5 to the double below it.
Popularity(c, n) ==
    LET k      == (100 * c) \div n
        half   == (200 * c) % n = 0 /\ ((200 * c) \div n) % 2 = 1
        a      == BinadeOf(c, n, 0)
        r      == (c * Pow2Mod(52 + a, n)) % n
        \* the double below k + 0.5 is 2^(gapExp - a - 52) away (half of that
        \* when k + 0.5 is the power of two 0.5); in units of 2 u / n:
        gapExp == IF k = 0 THEN a - 2 ELSE Log2Floor(k) + a
    IN  IF ~half THEN RoundDiv(100 * c, n)
        ELSE IF r = 0 \/ 2 * r >= n THEN k + 1
        ELSE IF 200 * r <= n * Pow2(gapExp) THEN k + 1
        ELSE k

PlaceholderRoutes ==
    << [route |-> "JFK-LAX", count |-> 45, avgPrice |-> 0, popularity |-> 85],
       [route |-> "ORD-LAS", count |-> 38, avgPrice |-> 0, popularity |-> 78],
       [route |-> "DFW-DEN", count |-> 32, avgPrice |-> 0, popularity |-> 72] >>

\* Mutation: the panel takes eight routes, as the charts do.
TopRoutesEight(flights) ==
    IF Len(flights) = 0 THEN PlaceholderRoutes
    ELSE CHOOSE r \in
            {[i \in 1..Len(top) |->
                 [ route      |-> top[i].key,
                   count      |-> top[i].count,
                   avgPrice   |-> RoundDiv(SumPrices(flights, top[i].key), top[i].count),
                   popularity |-> Popularity(top[i].count, Len(flights)) ]] :
               top \in {Slice0(SortDesc(Entries(Field(flights, "route"))), 8)}} : TRUE

\* updateTopRoutes, app.js:400-462
TopRoutes(flights) ==
    IF Len(flights) = 0 THEN PlaceholderRoutes
    ELSE CHOOSE r \in
            {[i \in 1..Len(top) |->
                 [ route      |-> top[i].key,
                   count      |-> top[i].count,
                   avgPrice   |-> RoundDiv(SumPrices(flights, top[i].key), top[i].count),
                   popularity |-> Popularity(top[i].count, Len(flights)) ]] :
               top \in {Slice0(SortDesc(Entries(Field(flights, "route"))), 5)}} : TRUE

\* Mutation: the share of one record, 100 / length, is computed ahead of
\* the early return.
DivisorsHoisted(flights) ==
    {Len(flights)} \cup {e.count : e \in {Entries(Field(flights, "route"))[i] :
                                             i \in 1..Len(Entries(Field(flights, "route")))}}

\* The divisors of stats.totalPrice / stats.count and of
\* stats.count / currentFlightData.length, app.js:449-450: both divisions sit
\* in the map over topRoutes, behind the early return of app.js:403-428.
Divisors(flights) ==
    IF Len(flights) = 0 THEN {}
    ELSE {Len(flights)} \cup {TopRoutes(flights)[i].count : i \in 1..Len(TopRoutes(flights))}

\* The loop of generatePriceTrend runs for i = 30 down to 0.
TrendDays == 30

\* Math.sin(i * 0.1) in thousandths, for i = 0 .. 30
SinMilli ==
    << 0, 100, 199, 296, 389, 479, 565, 644, 717, 783, 841, 891, 932, 964, 985, 997,
       1000, 992, 974, 946, 909, 863, 808, 746, 675, 598, 516, 427, 335, 239, 141 >>

\* Math.round(Math.max(200, basePrice + variation + seasonalEffect)) for the
\* day i and the draw k, app.js:361-364, computed in units of 1 / RandRes:
\*   variation      = (k / RandRes - 0.5) * 100
\*   seasonalEffect = Math.sin(i * 0.1) * 50
TrendPrice(i, k) ==
    LET variation      == 100 * k - 50 * RandRes
        seasonalEffect == (SinMilli[i + 1] * 50 * RandRes) \div 1000
        sum            == 450 * RandRes + variation + seasonalEffect
        price          == IF sum > 200 * RandRes THEN sum ELSE 200 * RandRes
    IN  (2 * price + RandRes) \div (2 * RandRes)

NoPriceData == [labels |-> <<>>, data |-> <<>>]

\* Mutation: the loop stops at i = 1 and leaves today out.
generatePriceTrendNoToday(tape) ==
    [ labels |-> [p \in 1..TrendDays |-> [daysAgo |-> TrendDays + 1 - p]],
      data   |-> [p \in 1..TrendDays |-> TrendPrice(TrendDays + 1 - p, tape[p])] ]

\* generatePriceTrend, app.js:350-368: one label and one value per day from
\* 30 days ago to today; the p-th point is the day i = 31 - p.  A label is
\* the date of that day, kept here as the number of days back.
generatePriceTrend(tape) ==
    [ labels |-> [p \in 1..(TrendDays + 1) |-> [daysAgo |-> TrendDays + 1 - p]],
      data   |-> [p \in 1..(TrendDays + 1) |-> TrendPrice(TrendDays + 1 - p, tape[p])] ]

\* Everything updateDashboard writes for a collection it can read.  The price
\* chart is left out: generatePriceTrend does not read the collection.
Rendered(flights) ==
    [ stats        |-> Statistics(flights),
      routeChart   |-> RouteChart(flights),
      airlineChart |-> AirlineChart(flights),
      table        |-> FlightTable(flights),
      topRoutes    |-> TopRoutes(flights) ]

\* updateDashboard, app.js:136-141.  updateStatistics reads f.route of every
\* entry before it writes anything, so a null entry leaves the page as shown.
updateDashboard(flights, shown) ==
    IF Throws(flights) THEN shown ELSE Rendered(flights)

----------------------------------------------------------------------------
(* The dashboard controller.                                               *)

\* The values the user leaves in the three filter inputs: no airport, an
\* origin only, a destination only, and both (the origin typed in lower case).
FilterInputs ==
    { <<"", "", DefaultLimit>>, <<"JFK", "", DefaultLimit + 1>>,
      <<"", "JFK", DefaultLimit>>, <<"lax", "JFK", DefaultLimit + 1>> }

\* Under RaceSpec: two settings that differ in every input.
RaceInputs == { <<"", "", DefaultLimit>>, <<"lax", "JFK", DefaultLimit + 1>> }

\* The draws the controller's generateSampleData calls consume, one record
\* per iteration: the first or the last airport, the first airline, price 200.
CtlDraws == {[ZeroDraws EXCEPT !.o = k] : k \in {0, RandRes - 1}}

\* Odd iterations draw a, even iterations draw b.
Tapes(n) == {[i \in 1..n |-> IF i % 2 = 1 THEN a ELSE b] : a, b \in CtlDraws}

\* const searchParams = {}; if (fromAirport) ...; if (toAirport) ...
\* app.js:63-65
SearchParams(from, to) ==
    [k \in {x \in {"origin", "destination"} :
               IF x = "origin" THEN Truthy(from) ELSE Truthy(to)}
        |-> IF k = "origin" THEN ToUpperCase(from) ELSE ToUpperCase(to)]

\* The base URL of the repository, app.js:2, and the one its README gives
\* for a deployment without a backend.
LocalBackend == "http://localhost:8000"

BaseUrls == {LocalBackend, ""}

\* `${API_BASE_URL}/flights/search`, app.js:67 and 484
SearchUrl == API_BASE_URL \o "/flights/search"

\* A loadFilteredData call suspended at its await: the input values it read,
\* the request body it sent, and whether a call started after it has already
\* resumed.
Request(from, to, limit) ==
    [ fromAirport |-> from, toAirport |-> to, dataLimit |-> limit,
      url |-> SearchUrl, body |-> SearchParams(from, to), overtaken |-> FALSE ]

\* No call: the step was not given a request.
NoRequest ==
    [ fromAirport |-> "", toAirport |-> "", dataLimit |-> 0,
      url |-> "", body |-> SearchParams("", ""), overtaken |-> FALSE ]

NoResponse == [kind |-> "none", flights |-> <<>>]

\* No download: exportData has not offered a file.
NoFile == [name |-> "", content |-> <<>>]

\* A handler step: which one, the request and the response it worked on, and
\* the file it offered for download.
Step(op, req, resp) == [op |-> op, req |-> req, resp |-> resp, file |-> NoFile]

\* n.toString().padStart(2, '0') for 0 <= n <= 99, app.js:123-124
Pad2(n) == IF n < 10 THEN "0" \o ToString(n) ELSE ToString(n)

\* The string `HH:MM` of a time
TimeString(t) == Pad2(t.hour) \o ":" \o Pad2(t.minute)

\* items.join(sep) as the sequence of its pieces: the items with sep between
\* each two.
Join(items, sep) ==
    [i \in 1..(IF Len(items) = 0 THEN 0 ELSE 2 * Len(items) - 1) |->
        IF i % 2 = 1 THEN items[(i + 1) \div 2] ELSE sep]

\* lines.join('\n') for lines that are sequences of pieces
RECURSIVE JoinLines(_)
JoinLines(lines) ==
    IF Len(lines) = 0 THEN <<>>
    ELSE IF Len(lines) = 1 THEN lines[1]
    ELSE lines[1] \o <<"\n">> \o JoinLines(Tail(lines))

headers == <<"Flight Number", "Airline", "Route", "Departure", "Arrival", "Price", "Status">>

\* The array convertToCSV makes of one record, app.js:543-551, its values as
\* join() writes them.
CsvRow(flight) ==
    << flight.flight_number, flight.airline, flight.route,
       TimeString(flight.departure_time), TimeString(flight.arrival_time),
       ToString(flight.price), flight.status >>

\* Mutation: only the rows the table shows are written.
convertToCSVDisplayed(data) ==
    JoinLines(<<Join(headers, ",")>>
              \o [i \in 1..Len(Slice0(data, 20)) |-> Join(CsvRow(data[i]), ",")])

\* convertToCSV, app.js:539-555, as the sequence of the pieces of its text:
\* field values, "," and "\n".
convertToCSV(data) ==
    JoinLines(<<Join(headers, ",")>>
              \o [i \in 1..Len(data) |-> Join(CsvRow(data[i]), ",")])

\* pending without its i-th call; the calls started before it are overtaken.
Resume(i) ==
    [j \in 1..(Len(pending) - 1) |->
        IF j < i THEN [pending[j] EXCEPT !.overtaken = TRUE] ELSE pending[j + 1]]

\* The user edits the filter inputs (index.html, the filter card).
SetFilters(from, to, limit) ==
    /\ <<from, to, limit>> # <<fromAirport, toAirport, dataLimit>>
    /\ fromAirport' = from
    /\ toAirport' = to
    /\ dataLimit' = limit
    /\ UNCHANGED <<currentFlightData, loadingShown, pending, initPending, view, last>>
    /\ UNCHANGED <<genVars, API_BASE_URL>>

\* loadFilteredData up to its await, app.js:54-73
loadFilteredDataStart(op, inFlight) ==
    /\ Len(pending) < inFlight
    /\ loadingShown' = TRUE
    /\ pending' = Append(pending, Request(fromAirport, toAirport, dataLimit))
    /\ last' = Step(op, NoRequest, NoResponse)
    /\ UNCHANGED <<currentFlightData, fromAirport, toAirport, dataLimit, initPending, view>>
    /\ UNCHANGED <<genVars, API_BASE_URL>>

\* click on #loadDataBtn, app.js:36
LoadFiltered(inFlight) == loadFilteredDataStart("load", inFlight)

\* click on #refreshBtn: refreshData, app.js:558-560
Refresh(inFlight) == loadFilteredDataStart("refresh", inFlight)

\* Mutation: the response is taken whole.
TryAssignUnsliced(req, resp, tape) ==
    CASE resp.kind = "flights"   -> resp.flights
      [] resp.kind = "noFlights" -> <<>>
      [] OTHER -> generateSampleData(req.dataLimit, req.fromAirport, req.toAirport, tape)

\* The collection the try block of loadFilteredData assigns, app.js:75-81;
\* only called when control reaches the assignment.
TryAssign(req, resp, tape) ==
    CASE resp.kind = "flights"   -> Slice0(resp.flights, req.dataLimit)
      [] resp.kind = "noFlights" -> <<>>
      [] OTHER -> generateSampleData(req.dataLimit, req.fromAirport, req.toAirport, tape)

\* Control reaches the catch block, app.js:86: fetch() or response.json()
\* rejected, or updateDashboard threw on the collection just assigned.
Caught(req, resp) ==
    \/ resp.kind \in {"network", "badJson"}
    \/ resp.kind = "flights" /\ Throws(Slice0(resp.flights, req.dataLimit))

\* Mutation: the fallback forgets the airport filters.
LoadedFlightsUnfiltered(req, resp, tape) ==
    IF Caught(req, resp) \/ resp.kind = "http"
    THEN generateSampleData(req.dataLimit, "", "", tape)
    ELSE TryAssign(req, resp, tape)

\* Mutation: when rendering the response throws, the catch block puts the
\* collection back that was there before the call.
LoadedFlightsRestore(req, resp, tape) ==
    IF resp.kind = "flights" /\ Throws(Slice0(resp.flights, req.dataLimit))
    THEN currentFlightData
    ELSE IF Caught(req, resp)
    THEN generateSampleData(req.dataLimit, req.fromAirport, req.toAirport, tape)
    ELSE TryAssign(req, resp, tape)

\* The collection loadFilteredData leaves behind.
LoadedFlights(req, resp, tape) ==
    IF Caught(req, resp)
    THEN generateSampleData(req.dataLimit, req.fromAirport, req.toAirport, tape)
    ELSE TryAssign(req, resp, tape)

\* Mutation: the overlay is left up when the call ends.
loadFilteredDataResumeNoHide(i, resp, tape) ==
    /\ i \in 1..Len(pending)
    /\ \E req \in {pending[i]} :
         \E flights \in {LoadedFlights(req, resp, tape)} :
           /\ currentFlightData' = flights
           /\ view' = updateDashboard(flights, view)
           /\ pending' = Resume(i)
           /\ last' = Step("loaded", req, resp)
    /\ UNCHANGED <<fromAirport, toAirport, dataLimit, initPending, loadingShown>>
    /\ UNCHANGED <<genVars, API_BASE_URL>>

\* Mutation: a response that arrives after a younger call has resumed is dropped.
loadFilteredDataResumeSequenced(i, resp, tape) ==
    /\ i \in 1..Len(pending)
    /\ \E req \in {pending[i]} :
         \E flights \in {IF req.overtaken THEN currentFlightData
                          ELSE LoadedFlights(req, resp, tape)} :
           /\ currentFlightData' = flights
           /\ view' = updateDashboard(flights, view)
           /\ loadingShown' = FALSE
           /\ pending' = Resume(i)
           /\ last' = Step("loaded", req, resp)
    /\ UNCHANGED <<fromAirport, toAirport, dataLimit, initPending>>
    /\ UNCHANGED <<genVars, API_BASE_URL>>

\* loadFilteredData from its await on, app.js:67-92, for the i-th suspended
\* call.  The await on response.json() is folded into the same step: nothing
\* is read or written between the two awaits.
loadFilteredDataResume(i, resp, tape) ==
    /\ i \in 1..Len(pending)
    /\ \E req \in {pending[i]} :
         \E flights \in {LoadedFlights(req, resp, tape)} :
           /\ currentFlightData' = flights
           /\ view' = updateDashboard(flights, view)
           /\ loadingShown' = FALSE
           /\ pending' = Resume(i)
           /\ last' = Step("loaded", req, resp)
    /\ UNCHANGED <<fromAirport, toAirport, dataLimit, initPending>>
    /\ UNCHANGED <<genVars, API_BASE_URL>>

\* generateSampleData runs, and draws, only on these paths.
Generates(req, resp) == resp.kind = "http" \/ Caught(req, resp)

LoadFilteredDone(responses) ==
    \E i \in 1..Len(pending), resp \in responses :
        IF Generates(pending[i], resp)
        THEN \E tape \in Tapes(pending[i].dataLimit) : loadFilteredDataResume(i, resp, tape)
        ELSE loadFilteredDataResume(i, resp, <<>>)

\* The collection after loadInitialData's continuation, app.js:496-502
InitialFlights(resp) ==
    IF resp.kind = "flights" /\ Len(resp.flights) > 0
    THEN resp.flights ELSE currentFlightData

\* loadInitialData from its await on, app.js:484-506.  An exception of
\* updateDashboard is caught and logged.
loadInitialDataResume(resp) ==
    /\ initPending
    /\ initPending' = FALSE
    /\ currentFlightData' = InitialFlights(resp)
    /\ view' = IF resp.kind = "flights" /\ Len(resp.flights) > 0
               THEN updateDashboard(InitialFlights(resp), view) ELSE view
    /\ last' = Step("initLoaded", NoRequest, resp)
    /\ UNCHANGED <<fromAirport, toAirport, dataLimit, loadingShown, pending>>
    /\ UNCHANGED <<genVars, API_BASE_URL>>

LoadInitialDone(responses) == \E resp \in responses : loadInitialDataResume(resp)

\* loadSampleData, app.js:476-479: generateSampleData(50)
loadSampleData(tape) == generateSampleData(DefaultLimit, "", "", tape)

\* Mutation: the collection is emptied instead of refilled.
clearFiltersEmpty(tape) ==
    /\ fromAirport' = ""
    /\ toAirport' = ""
    /\ dataLimit' = DefaultLimit
    /\ currentFlightData' = <<>>
    /\ view' = updateDashboard(<<>>, view)
    /\ last' = Step("clear", NoRequest, NoResponse)
    /\ UNCHANGED <<loadingShown, pending, initPending>>
    /\ UNCHANGED <<genVars, API_BASE_URL>>

\* Mutation: the data-limit select is left as it is.
clearFiltersKeepLimit(tape) ==
    /\ fromAirport' = ""
    /\ toAirport' = ""
    /\ \E flights \in {loadSampleData(tape)} :
          /\ currentFlightData' = flights
          /\ view' = updateDashboard(flights, view)
    /\ last' = Step("clear", NoRequest, NoResponse)
    /\ UNCHANGED <<loadingShown, pending, initPending, dataLimit>>
    /\ UNCHANGED <<genVars, API_BASE_URL>>

\* clearFilters, app.js:510-517
clearFilters(tape) ==
    /\ fromAirport' = ""
    /\ toAirport' = ""
    /\ dataLimit' = DefaultLimit
    /\ \E flights \in {loadSampleData(tape)} :
          /\ currentFlightData' = flights
          /\ view' = updateDashboard(flights, view)
    /\ last' = Step("clear", NoRequest, NoResponse)
    /\ UNCHANGED <<loadingShown, pending, initPending>>
    /\ UNCHANGED <<genVars, API_BASE_URL>>

ClearFilters == \E tape \in Tapes(DefaultLimit) : clearFilters(tape)

\* exportData, app.js:520-536: an alert on an empty collection, a download
\* of airline_data.csv otherwise.  convertToCSV reads flight.flight_number of every entry, so a
\* null entry throws out of the click handler; the exception is uncaught and
\* reaches the window 'error' listener, app.js:589-592, which hides the
\* loading overlay.
exportData ==
    CASE Len(currentFlightData) = 0 ->
            /\ last' = Step("exportAlert", NoRequest, NoResponse)
            /\ UNCHANGED loadingShown
      [] Len(currentFlightData) > 0 /\ Throws(currentFlightData) ->
            /\ last' = Step("exportError", NoRequest, NoResponse)
            /\ loadingShown' = FALSE
      [] OTHER ->
            /\ last' = [Step("exportFile", NoRequest, NoResponse) EXCEPT
                           !.file = [name |-> "airline_data.csv",
                                     content |-> convertToCSV(currentFlightData)]]
            /\ UNCHANGED loadingShown

\* Mutation: the rows are taken off the collection as they are written.
ExportDataSplice ==
    /\ exportData
    /\ currentFlightData' = <<>>
    /\ UNCHANGED <<fromAirport, toAirport, dataLimit, pending, initPending, view>>
    /\ UNCHANGED <<genVars, API_BASE_URL>>

\* click on #exportBtn, app.js:39
ExportData ==
    /\ exportData
    /\ UNCHANGED <<currentFlightData, fromAirport, toAirport, dataLimit,
                   pending, initPending, view>>
    /\ UNCHANGED <<genVars, API_BASE_URL>>

\* The page once the DOMContentLoaded listener has returned, app.js:15-19:
\* initializeDashboard has rendered the sample data, loadInitialData waits
\* for its response.
DOMContentLoaded ==
    /\ \E tape \in Tapes(DefaultLimit) :
          \E flights \in {loadSampleData(tape)} :
             /\ currentFlightData = flights
             /\ view = Rendered(flights)
    /\ fromAirport = ""
    /\ toAirport = ""
    /\ dataLimit = DefaultLimit
    /\ loadingShown = FALSE
    /\ pending = <<>>
    /\ initPending = TRUE
    /\ last = Step("init", NoRequest, NoResponse)
    /\ genArgs = [limit |-> 0, origin |-> "", destination |-> ""]
    /\ genTape = <<>>
    /\ genFlights = <<>>
    /\ genPc = "idle"
    /\ priceData = NoPriceData

\* The page as the repository has it: const API_BASE_URL = 'http://localhost:8000'
Init ==
    /\ API_BASE_URL = LocalBackend
    /\ DOMContentLoaded

\* The events of the page, for at most inFlight overlapping loads, the
\* filter settings of inputs and the given ways a request resolves.
Controller(inFlight, inputs, responses) ==
    \/ \E f \in inputs : SetFilters(f[1], f[2], f[3])
    \/ LoadFiltered(inFlight)
    \/ Refresh(inFlight)
    \/ LoadFilteredDone(responses)
    \/ LoadInitialDone(responses)
    \/ ClearFilters
    \/ ExportData

Next == Controller(MaxInFlight, FilterInputs, Responses)

Spec == Init /\ [][Next]_vars

RaceNext == Controller(MaxPending, RaceInputs, RaceResponses)

RaceSpec == Init /\ [][RaceNext]_vars

\* The page deployed with either base URL.
ConfigInit ==
    /\ API_BASE_URL \in BaseUrls
    /\ DOMContentLoaded

ConfigNext == Controller(MaxInFlight, RaceInputs, RaceResponses)

ConfigSpec == ConfigInit /\ [][ConfigNext]_vars

----------------------------------------------------------------------------
(* generateSampleData called on its own.                                   *)

GenOrigins == {"", "JFK", "DCA", "jfk"}

GenDestinations == {"", "JFK", "LAX"}

\* Draws that reach the first, the second and the last entry of both airport
\* lists.
AirportDraws == {[ZeroDraws EXCEPT !.o = ko, !.d = kd] : ko, kd \in {0, 16, RandRes - 1}}

\* Draws for a departure at 23:30 with the longest duration: with the least
\* and with the greatest draw for the arrival minute and the duration minutes.
TimeDraws ==
    {[ZeroDraws EXCEPT !.h = RandRes - 1, !.m = RandRes \div 2, !.f = RandRes - 1,
                       !.x = k, !.y = k] : k \in {0, RandRes - 1}}

GenDraws == AirportDraws \cup TimeDraws

GenInit ==
    /\ genArgs \in [limit : 0..MaxCount, origin : GenOrigins, destination : GenDestinations]
    /\ genTape \in [1..MaxCount -> GenDraws]
    /\ genFlights = <<>>
    /\ genPc = "call"
    /\ priceData = NoPriceData
    /\ currentFlightData = <<>>
    /\ fromAirport = ""
    /\ toAirport = ""
    /\ dataLimit = DefaultLimit
    /\ loadingShown = FALSE
    /\ pending = <<>>
    /\ initPending = FALSE
    /\ view = Rendered(<<>>)
    /\ last = Step("init", NoRequest, NoResponse)
    /\ API_BASE_URL = LocalBackend

GenCall ==
    /\ genPc = "call"
    /\ genFlights' = generateSampleData(genArgs.limit, genArgs.origin,
                                        genArgs.destination, genTape)
    /\ genPc' = "done"
    /\ UNCHANGED <<genArgs, genTape, priceData>>
    /\ UNCHANGED <<API_BASE_URL, currentFlightData, fromAirport, toAirport, dataLimit,
                   loadingShown, pending, initPending, view, last>>

GenNext == GenCall

GenSpec == GenInit /\ [][GenNext]_vars

----------------------------------------------------------------------------
(* updateDashboard, and then exportData, called on a collection of flight   *)
(* records.                                                                *)

\* Airline names a search response may carry: the eight of the generator and
\* four more.
Carriers == airlines \o <<"Hawaiian Airlines", "Allegiant Air",
                          "Sun Country Airlines", "Breeze Airways">>

\* A record on the j-th route, airports[j] to airports[j+1].
Flight(j, airline, price) ==
    [ flight_number |-> "FL" \o ToString(price), airline |-> airline,
      origin |-> airports[j], destination |-> airports[j + 1],
      route |-> airports[j] \o "-" \o airports[j + 1],
      departure_time |-> [hour |-> j, minute |-> 0],
      arrival_time |-> [hour |-> j + 2, minute |-> 30],
      price |-> price, duration |-> [hours |-> 2, minutes |-> 30],
      status |-> statuses[1 + (j % 4)], date |-> Today ]

\* Two routes, three prices, and two airlines that are given by number.
SmallRecords ==
    { Flight(1, "Delta Air Lines", 300), Flight(1, "2", 451),
      Flight(2, "1", 200), Flight(2, "Delta Air Lines", 999) }

SmallCollections == UNION {[1..n -> SmallRecords] : n \in 0..MaxLen}

\* n records, the first c on one route and the others on a second one.
Split(n, c) ==
    [i \in 1..n |-> IF i <= c THEN Flight(1, Carriers[1], 300)
                    ELSE Flight(2, Carriers[2], 200)]

SplitCollections == {Split(n, c) : n \in 1..MaxRows, c \in 0..MaxRows} \ {<<>>}

\* How often the j-th of m keys occurs in a collection of the given shape.
ShapeCount(shape, m, j) ==
    CASE shape = "rising"  -> j
      [] shape = "falling" -> m + 1 - j
      [] shape = "level"   -> 1
      [] shape = "mixed"   -> 1 + (j % 3)

\* The key of the i-th record when the keys come in blocks, the j-th block
\* ShapeCount(shape, m, j) long.
RECURSIVE BlockOf(_, _, _, _)
BlockOf(shape, m, i, j) ==
    IF i <= ShapeCount(shape, m, j) THEN j
    ELSE BlockOf(shape, m, i - ShapeCount(shape, m, j), j + 1)

RECURSIVE BlocksLen(_, _, _)
BlocksLen(shape, m, j) ==
    IF j > m THEN 0 ELSE ShapeCount(shape, m, j) + BlocksLen(shape, m, j + 1)

\* m routes and m airlines, the j-th of each on the records of the j-th block.
Blocks(shape, m) ==
    [i \in 1..BlocksLen(shape, m, 1) |->
        Flight(BlockOf(shape, m, i, 1), Carriers[BlockOf(shape, m, i, 1)],
               200 + 7 * i)]

BlockCollections ==
    {Blocks(shape, m) : shape \in {"rising", "falling", "level", "mixed"}, m \in 1..MaxKeys}

AggCollections == SmallCollections \cup SplitCollections \cup BlockCollections

AggInit ==
    /\ currentFlightData \in AggCollections
    /\ view = Rendered(<<>>)
    /\ genPc = "render"
    /\ genArgs = [limit |-> 0, origin |-> "", destination |-> ""]
    /\ genTape = <<>>
    /\ genFlights = <<>>
    /\ priceData = NoPriceData
    /\ fromAirport = ""
    /\ toAirport = ""
    /\ dataLimit = DefaultLimit
    /\ loadingShown = FALSE
    /\ pending = <<>>
    /\ initPending = FALSE
    /\ last = Step("init", NoRequest, NoResponse)
    /\ API_BASE_URL = LocalBackend

AggRender ==
    /\ genPc = "render"
    /\ \E flights \in {currentFlightData} : view' = updateDashboard(flights, view)
    /\ genPc' = "rendered"
    /\ UNCHANGED <<genArgs, genTape, genFlights, priceData>>
    /\ UNCHANGED <<API_BASE_URL, currentFlightData, fromAirport, toAirport, dataLimit,
                   loadingShown, pending, initPending, last>>

\* exportData on the rendered collection
AggExport ==
    /\ genPc = "rendered"
    /\ exportData
    /\ genPc' = "exported"
    /\ UNCHANGED <<genArgs, genTape, genFlights, priceData>>
    /\ UNCHANGED <<API_BASE_URL, currentFlightData, fromAirport, toAirport, dataLimit,
                   pending, initPending, view>>

AggNext == AggRender \/ AggExport

AggSpec == AggInit /\ [][AggNext]_vars

----------------------------------------------------------------------------
(* generatePriceTrend called on its own.                                   *)

\* The least and the largest draw, the draws around a half, and some between.
TrendDraws == {0, 1, 59, 60, 119, 120, 121, 180, RandRes - 2, RandRes - 1}

\* One draw per day: a on the odd points, b on the even ones.
TrendTapes ==
    {[p \in 1..(TrendDays + 1) |-> IF p % 2 = 1 THEN a ELSE b] : a, b \in TrendDraws}

TrendInit ==
    /\ genTape \in TrendTapes
    /\ priceData = NoPriceData
    /\ genPc = "trend"
    /\ genArgs = [limit |-> 0, origin |-> "", destination |-> ""]
    /\ genFlights = <<>>
    /\ currentFlightData = <<>>
    /\ view = Rendered(<<>>)
    /\ fromAirport = ""
    /\ toAirport = ""
    /\ dataLimit = DefaultLimit
    /\ loadingShown = FALSE
    /\ pending = <<>>
    /\ initPending = FALSE
    /\ last = Step("init", NoRequest, NoResponse)
    /\ API_BASE_URL = LocalBackend

TrendCall ==
    /\ genPc = "trend"
    /\ priceData' = generatePriceTrend(genTape)
    /\ genPc' = "trendDone"
    /\ UNCHANGED <<genArgs, genTape, genFlights>>
    /\ UNCHANGED <<API_BASE_URL, currentFlightData, fromAirport, toAirport, dataLimit,
                   loadingShown, pending, initPending, view, last>>

TrendNext == TrendCall

TrendSpec == TrendInit /\ [][TrendNext]_vars

----------------------------------------------------------------------------
(* Properties.                                                             *)

\* Every record of flights carries the airports the call read from the inputs.
MatchesFilters(flights, req) ==
    \A i \in 1..Len(flights) :
        /\ Truthy(req.fromAirport) => flights[i].origin = req.fromAirport
        /\ Truthy(req.toAirport) => flights[i].destination = req.toAirport

\* C1: when the search request of a loadFilteredData call fails, by a
\* rejected fetch or by a response that is not ok, the collection afterwards
\* holds exactly as many generated records as the limit the call read, each
\* with the origin and the destination the call read from the inputs when
\* they were filled in; the statement does not depend on the kind of failure.
C1_FailureFallsBack ==
    (last.op = "loaded" /\ IsFailure(last.resp)) =>
        /\ Len(currentFlightData) = last.req.dataLimit
        /\ MatchesFilters(currentFlightData, last.req)

C1_Witness ==
    /\ last.op = "loaded"
    /\ last.resp.kind = "network"
    /\ last.req.fromAirport = "lax"
    /\ last.req.toAirport = "JFK"
    /\ Len(currentFlightData) = DefaultLimit + 1
    /\ currentFlightData[1].origin = "lax"

\* Requests resolve: a suspended loadFilteredData call is resumed in the end.
\* The filter settings are those of RaceInputs.
FairNext == Controller(MaxInFlight, RaceInputs, Responses)

FairSpec == Init /\ [][FairNext]_vars /\ WF_vars(LoadFilteredDone(Responses))

\* After a loadFilteredData call has run to its end the overlay is hidden and
\* the page shows the collection.
Settled ==
    /\ ~loadingShown
    /\ ~Throws(currentFlightData)
    /\ view = Rendered(currentFlightData)

\* No handler is ever switched off (the model stops issuing loads at its bound).
Interactive ==
    /\ ENABLED ClearFilters
    /\ ENABLED ExportData
    /\ Len(pending) < MaxInFlight =>
          ENABLED LoadFiltered(MaxInFlight) /\ ENABLED Refresh(MaxInFlight)

\* C2: a load or refresh whose request resolves, whatever the response, ends
\* with the overlay hidden and the views rendered from the collection; that
\* state is reached whenever a request is in flight and requests resolve, and
\* load, clear, refresh and export stay available in every state.
C2_LoadSettles ==
    /\ []((last.op = "loaded" => Settled) /\ Interactive)
    /\ (Len(pending) > 0) ~> (last.op = "loaded" /\ Settled)

C2_Witness ==
    /\ last.op = "loaded"
    /\ last.resp.kind = "badJson"
    /\ Settled
    /\ Len(currentFlightData) = DefaultLimit + 1

\* C3: with overlapping loadFilteredData calls, the collection after a call
\* has resumed is that call's result, whether or not a call started after it
\* has resumed before it: the last response to arrive wins.
C3_LastWriteWins ==
    \A overtaken \in BOOLEAN :
        (last.op = "loaded" /\ last.req.overtaken = overtaken) =>
            IF last.resp.kind = "flights"
            THEN currentFlightData = Slice0(last.resp.flights, last.req.dataLimit)
            ELSE /\ Len(currentFlightData) = last.req.dataLimit
                 /\ MatchesFilters(currentFlightData, last.req)

\* The call that read "lax" was started first and resumed last.
C3_Witness ==
    /\ last.op = "loaded"
    /\ last.req.overtaken
    /\ last.req.fromAirport = "lax"
    /\ last.resp.kind = "network"
    /\ pending = <<>>
    /\ currentFlightData[1].origin = "lax"

\* C4: as long as a loadFilteredData call is waiting for its response the
\* loading overlay is shown; no other event hides it.
C4_LoadingWhilePending == Len(pending) > 0 => loadingShown

\* C5: when the response is ok and carries n flight records, the collection
\* afterwards is the first min(n, limit) of them in response order; when it
\* carries no flights list the collection is empty.
C5_ResponseTruncated ==
    /\ (last.op = "loaded" /\ last.resp.kind = "flights" /\ ~Throws(last.resp.flights)) =>
          /\ Len(currentFlightData) = Min(Len(last.resp.flights), last.req.dataLimit)
          /\ \A i \in 1..Len(currentFlightData) : currentFlightData[i] = last.resp.flights[i]
    /\ (last.op = "loaded" /\ last.resp.kind = "noFlights") => currentFlightData = <<>>

C5_Witness ==
    /\ last.op = "loaded"
    /\ last.resp.kind = "flights"
    /\ Len(last.resp.flights) > last.req.dataLimit
    /\ last.req.dataLimit = DefaultLimit + 1
    /\ currentFlightData = <<S1, S2>> \o SubSeq(last.resp.flights, 3, DefaultLimit + 1)

\* C6: after any load (page load, loadFilteredData, refresh, clearFilters)
\* the collection holds at most limit records, limit being the value the call
\* read from the select, or the select's value for the calls that read none.
C6_AtMostLimit ==
    /\ last.op = "loaded" => Len(currentFlightData) <= last.req.dataLimit
    /\ last.op \in {"init", "initLoaded", "clear"} => Len(currentFlightData) <= dataLimit

\* C7: between handlers the page shows what rendering the current collection
\* gives.
C7_ViewsCurrent == ~Throws(currentFlightData) /\ view = Rendered(currentFlightData)

\* C8: generateSampleData returns exactly count records, none for count 0.
C8_ExactCount == genPc = "done" => Len(genFlights) = genArgs.limit

C8_Witness ==
    /\ genPc = "done"
    /\ genArgs.limit = MaxCount
    /\ genArgs.origin = "jfk"
    /\ Len(genFlights) = MaxCount
    /\ genFlights[MaxCount].origin = "jfk"

\* C9: called with neither origin nor destination, generateSampleData gives
\* every record a destination that is an airport of the list and differs
\* from the record's origin.
C9_UnfilteredDistinct ==
    (genPc = "done" /\ genArgs.origin = "" /\ genArgs.destination = "") =>
        \A i \in 1..Len(genFlights) :
            /\ genFlights[i].origin # genFlights[i].destination
            /\ genFlights[i].destination \in AirportSet

\* The last origin with the last index of the re-draw.
C9_Witness ==
    /\ genPc = "done"
    /\ genArgs.origin = ""
    /\ genArgs.destination = ""
    /\ Len(genFlights) = MaxCount
    /\ genFlights[1].origin = "DCA"
    /\ genFlights[1].destination = "IAD"

\* C10: every record generateSampleData produces has origin # destination,
\* whatever origin and destination it is given.
C10_AlwaysDistinct ==
    genPc = "done" =>
        \A i \in 1..Len(genFlights) : genFlights[i].origin # genFlights[i].destination

----------------------------------------------------------------------------
(* Properties of rendering.                                                *)

\* The number of distinct values among the values of f at 1..n, counted by
\* their first positions.
Distinct(f, n) == Cardinality({i \in 1..n : \A j \in 1..(i - 1) : f[j] # f[i]})

\* C11: each of the four statistics shown is the value computed from the
\* collection when that is not zero and its default (300, 10, 10, 10)
\* otherwise; an empty collection shows 300, 10, 10, 10.
C11_StatisticsShown ==
    genPc = "rendered" =>
        LET f == currentFlightData
            n == Len(f)
            ends == [i \in 1..(2 * n) |-> IF i <= n THEN f[i].origin ELSE f[i - n].destination]
        IN  /\ view.stats.totalFlights = (IF n # 0 THEN n ELSE 300)
            /\ view.stats.uniqueRoutes =
                  (IF n # 0 THEN Distinct(Field(f, "route"), n) ELSE 10)
            /\ view.stats.airlines =
                  (IF n # 0 THEN Distinct(Field(f, "airline"), n) ELSE 10)
            /\ view.stats.airports = (IF n # 0 THEN Distinct(ends, 2 * n) ELSE 10)

\* Three records on two routes between three airports, by three airlines.
C11_Witness ==
    /\ genPc = "rendered"
    /\ Len(currentFlightData) = 3
    /\ view.stats = [totalFlights |-> 3, uniqueRoutes |-> 2, airlines |-> 3, airports |-> 3]

\* C12: on an empty collection the computed total, routes, airlines and
\* airports are all zero and the route and airline counts have no entry; and
\* on every collection the divisions for the average price and the
\* popularity are evaluated with a divisor other than zero (on an empty
\* collection they are not evaluated at all).
C12_EmptyAggregation ==
    genPc = "rendered" =>
        /\ 0 \notin Divisors(currentFlightData)
        /\ currentFlightData = <<>> =>
              /\ \A name \in DOMAIN dashboardStats : Computed(currentFlightData)[name] = 0
              /\ Entries(Field(currentFlightData, "route")) = <<>>
              /\ Entries(Field(currentFlightData, "airline")) = <<>>
              /\ Divisors(currentFlightData) = {}

\* The empty collection has been rendered: defaults and placeholders.
C12_Witness ==
    /\ genPc = "rendered"
    /\ currentFlightData = <<>>
    /\ view.stats = dashboardStats
    /\ view.topRoutes = PlaceholderRoutes
    /\ view.table.placeholder

\* C13: for a collection with records, every route of the top-routes panel
\* shows as its average price round(totalPrice / count), and as its
\* popularity round(100 * count / number of records), count being the number
\* of records of the route and totalPrice the sum of their prices.
C13_AverageAndPopularity ==
    (genPc = "rendered" /\ Len(currentFlightData) > 0) =>
        \A i \in 1..Len(view.topRoutes) :
            LET e     == view.topRoutes[i]
                recs  == {j \in 1..Len(currentFlightData) : currentFlightData[j].route = e.route}
                count == Cardinality(recs)
            IN  /\ e.avgPrice = RoundDiv(SumPrices(currentFlightData, e.route), count)
                /\ e.popularity = RoundDiv(100 * count, Len(currentFlightData))

\* Where the key k first occurs in the key sequence s.
FirstSeen(s, k) == CHOOSE i \in 1..Len(s) : s[i] = k /\ \A j \in 1..(i - 1) : s[j] # k

\* The ranking keys (with their counts) of the key sequence s puts, of two
\* keys with the same count, the one seen first in s first; and no key left
\* out was seen before a ranked key with the same count.
StableRanking(keys, counts, s) ==
    /\ \A p, q \in 1..Len(keys) :
          (p < q /\ counts[p] = counts[q]) => FirstSeen(s, keys[p]) < FirstSeen(s, keys[q])
    /\ \A p \in 1..Len(keys), i \in 1..Len(s) :
          ((\A q \in 1..Len(keys) : keys[q] # s[i]) /\ CountOf(s, s[i]) = counts[p])
              => FirstSeen(s, keys[p]) < i

\* C14: in the route chart, the airline chart and the top-routes panel, of
\* two keys with equal counts the one that appears first in the collection
\* is ranked first, for every collection.
C14_StableTopN ==
    (genPc = "rendered" /\ Len(currentFlightData) > 0) =>
        /\ StableRanking(view.routeChart.labels, view.routeChart.data,
                         Field(currentFlightData, "route"))
        /\ StableRanking(view.airlineChart.labels, view.airlineChart.data,
                         Field(currentFlightData, "airline"))
        /\ StableRanking(Field(view.topRoutes, "route"), Field(view.topRoutes, "count"),
                         Field(currentFlightData, "route"))

\* series is the top-`most` ranking of the key sequence s: as many entries
\* as s has distinct keys, up to most; distinct keys of s, each with the
\* number of its occurrences; counts that do not increase; and no key left
\* out that occurs more often than a key of the series.
IsTopRanking(keys, counts, s, most) ==
    /\ Len(keys) = Min(most, Distinct(s, Len(s)))
    /\ Len(counts) = Len(keys)
    /\ \A p \in 1..Len(keys) :
          /\ counts[p] = Cardinality({i \in 1..Len(s) : s[i] = keys[p]})
          /\ counts[p] > 0
          /\ \A q \in 1..Len(keys) : p < q => keys[p] # keys[q] /\ counts[p] >= counts[q]
    /\ \A i \in 1..Len(s) :
          (\A q \in 1..Len(keys) : keys[q] # s[i]) =>
              \A p \in 1..Len(keys) :
                  Cardinality({j \in 1..Len(s) : s[j] = s[i]}) <= counts[p]

C16_PriceTrendSeries ==
    genPc = "trendDone" =>
        /\ Len(priceData.labels) = 31
        /\ Len(priceData.data) = 31
        /\ \A p \in 1..Len(priceData.data) : priceData.data[p] >= 200

\* The least draw on every day: today's value, the last one, is 450 - 50.
C16_Witness ==
    /\ genPc = "trendDone"
    /\ \A p \in 1..Len(genTape) : genTape[p] = 0
    /\ Len(priceData.data) = 31
    /\ priceData.data[31] = 400
    /\ priceData.labels[31] = [daysAgo |-> 0]

\* C17: for a collection of n >= 1 records the table shows min(20, n)
\* rows, the first records of the collection in their order; for an empty
\* collection it shows the one placeholder row.
C17_TableRows ==
    genPc = "rendered" =>
        LET n == Len(currentFlightData)
        IN  IF n = 0
            THEN view.table.placeholder /\ view.table.rows = <<>>
            ELSE /\ ~view.table.placeholder
                 /\ Len(view.table.rows) = (IF n < 20 THEN n ELSE 20)
                 /\ \A i \in 1..Len(view.table.rows) :
                       view.table.rows[i] = currentFlightData[i]

\* A collection of more than 20 records whose 20th and 21st differ.
C17_Witness ==
    /\ genPc = "rendered"
    /\ Len(currentFlightData) > 20
    /\ currentFlightData[20] # currentFlightData[21]
    /\ Len(view.table.rows) = 20
    /\ view.table.rows[20] = currentFlightData[20]

\* C18: for a collection with records the top-routes panel shows
\* min(5, number of distinct routes) entries, the most frequent routes in
\* order of non-increasing count; for an empty collection it shows the three
\* fixed entries JFK-LAX, ORD-LAS and DFW-DEN.
C18_TopFiveRoutes ==
    genPc = "rendered" =>
        IF Len(currentFlightData) = 0
        THEN Field(view.topRoutes, "route") = <<"JFK-LAX", "ORD-LAS", "DFW-DEN">>
        ELSE IsTopRanking(Field(view.topRoutes, "route"), Field(view.topRoutes, "count"),
                          Field(currentFlightData, "route"), 5)

\* More than five routes, the later ones the more frequent.
C18_Witness ==
    /\ genPc = "rendered"
    /\ Distinct(Field(currentFlightData, "route"), Len(currentFlightData)) > 5
    /\ Len(view.topRoutes) = 5
    /\ view.topRoutes[1].route = currentFlightData[Len(currentFlightData)].route
    /\ view.topRoutes[1].count > view.topRoutes[5].count
    /\ \A p \in 1..5 : view.topRoutes[p].route # currentFlightData[1].route

----------------------------------------------------------------------------
(* Properties of clearFilters.  A clearFilters step is a step that          *)
(* satisfies ClearFilters; every such step records "clear" in last, which   *)
(* is tested first.                                                         *)

\* Records as generateSampleData makes them without an airport filter: both
\* airports from the list, and different.
Unfiltered(flights) ==
    \A i \in 1..Len(flights) :
        /\ flights[i].origin \in AirportSet
        /\ flights[i].destination \in AirportSet
        /\ flights[i].origin # flights[i].destination

\* C19: clearFilters, from any state, leaves both airport inputs empty and
\* the limit at its default (50), replaces the collection by exactly that
\* many sample records generated without an airport filter, and renders it.
C19_ClearResets ==
    [][(last'.op = "clear" /\ ClearFilters) =>
          /\ fromAirport' = ""
          /\ toAirport' = ""
          /\ dataLimit' = DefaultLimit
          /\ Len(currentFlightData') = DefaultLimit
          /\ Unfiltered(currentFlightData')
          /\ view' = Rendered(currentFlightData')]_vars

\* clearFilters ran while a load that had read other filters was waiting.
C19_Witness ==
    /\ last.op = "clear"
    /\ Len(pending) = 1
    /\ pending[1].fromAirport = "lax"
    /\ pending[1].dataLimit = DefaultLimit + 1
    /\ fromAirport = ""
    /\ toAirport = ""
    /\ dataLimit = DefaultLimit
    /\ Len(currentFlightData) = DefaultLimit
    /\ currentFlightData[1].origin = "DCA"
    /\ view = Rendered(currentFlightData)

\* C20 as stated: clearFilters gives the four statistics of the page-load
\* state, and a second clearFilters gives the statistics of the first: a
\* clearFilters step taken right after page load, or right after a
\* clearFilters step, leaves the four statistics as they are.
C20_ClearSameStatistics ==
    [][(last.op \in {"init", "clear"} /\ last'.op = "clear" /\ ClearFilters)
          => view'.stats = view.stats]_vars

\* C20, amended: after clearFilters, from any state, the total shown is the
\* sample size (50), which is the total of the page-load state and of every
\* earlier clearFilters; the numbers of routes, airlines and airports are
\* those of freshly drawn records.
C20_ClearSameTotal ==
    [][(last'.op = "clear" /\ ClearFilters) =>
          /\ view'.stats.totalFlights = DefaultLimit
          /\ last.op \in {"init", "clear"} =>
                view'.stats.totalFlights = view.stats.totalFlights]_vars

\* After server data had been shown, clearFilters drew two records on two
\* routes.
C20_Witness ==
    /\ last.op = "clear"
    /\ ~initPending
    /\ view.stats.totalFlights = DefaultLimit
    /\ view.stats.uniqueRoutes = 2
    /\ view.stats.airports = 3

----------------------------------------------------------------------------
(* Properties of exportData.                                               *)

\* C22: the CSV is the header line followed by one line per record of the
\* whole collection, in its order: flight number, airline, route, departure,
\* arrival, price and status with commas between; the lines are separated by
\* newlines and no newline ends the text.
C22_CsvLines ==
    last.op = "exportFile" =>
        LET c == last.file.content
            n == Len(currentFlightData)
        IN  /\ Len(c) = 14 * (n + 1) - 1
            /\ SubSeq(c, 1, 13) =
                  << "Flight Number", ",", "Airline", ",", "Route", ",", "Departure", ",",
                     "Arrival", ",", "Price", ",", "Status" >>
            /\ c[Len(c)] # "\n"
            /\ \A r \in 1..n :
                  LET f == currentFlightData[r]
                  IN  /\ c[14 * r] = "\n"
                      /\ SubSeq(c, 14 * r + 1, 14 * r + 13) =
                            << f.flight_number, ",", f.airline, ",", f.route, ",",
                               TimeString(f.departure_time), ",",
                               TimeString(f.arrival_time), ",",
                               ToString(f.price), ",", f.status >>

\* A collection of more than 20 records: the 21st has its line.
C22_Witness ==
    /\ last.op = "exportFile"
    /\ Len(currentFlightData) > 20
    /\ last.file.name = "airline_data.csv"
    /\ SubSeq(last.file.content, 14 * 21 + 1, 14 * 21 + 13) =
          << "FL200", ",", "Delta Air Lines", ",", "LAX-ORD", ",", "02:00", ",",
             "04:30", ",", "200", ",", "Boarding" >>

\* C21: exportData on an empty collection offers no file, alerts, and leaves
\* the collection, the filter inputs and the loading overlay as they were;
\* a file is offered if and only if the collection is non-empty.
C21_FileIffNonEmpty ==
    [][(last'.op \in {"exportAlert", "exportError", "exportFile"} /\ ExportData) =>
          /\ Len(currentFlightData) = 0 =>
                /\ last'.op = "exportAlert"
                /\ UNCHANGED <<currentFlightData, fromAirport, toAirport,
                               dataLimit, loadingShown>>
          /\ last'.file # NoFile <=> Len(currentFlightData) > 0]_vars

----------------------------------------------------------------------------
(* Properties of the base URL.                                             *)

\* C23: the base URL selects the mode: with a non-empty base URL a load sends
\* the search request first; with an empty base URL neither the page load
\* nor loadFilteredData issues a request.
C23_EmptyBaseUrlSampleOnly ==
    /\ API_BASE_URL = "" => ~initPending /\ pending = <<>>
    /\ API_BASE_URL # "" /\ loadingShown /\ last.op \in {"load", "refresh"} =>
          /\ pending # <<>>
          /\ pending[Len(pending)].url = API_BASE_URL \o "/flights/search"

----------------------------------------------------------------------------
(* Who assigns the flight collection.                                      *)

\* C24: exportData leaves the flight collection and the filter inputs as
\* they are, and so does rendering: the collection changes only in a step
\* of loadFilteredData, loadInitialData or loadSampleData (clearFilters),
\* and after such a step it is the value the load assigned.
C24_OnlyLoadsAssign ==
    [][/\ (last' # last /\ last'.op \in {"exportAlert", "exportError", "exportFile"}) =>
             UNCHANGED <<currentFlightData, fromAirport, toAirport, dataLimit>>
       /\ currentFlightData' # currentFlightData =>
             last'.op \in {"loaded", "initLoaded", "clear"}
       /\ (last' # last /\ last'.op = "initLoaded" /\ view' # view) =>
             currentFlightData' = last'.resp.flights]_vars

\* A file was exported from a filtered, rendered collection.
C24_Witness ==
    /\ last.op = "exportFile"
    /\ fromAirport = "JFK"
    /\ Len(currentFlightData) > 0
    /\ view = Rendered(currentFlightData)

----------------------------------------------------------------------------
(* Failures while rendering.                                               *)

\* The response is ok and updateDashboard throws on the records taken from it.
RenderFailed(step) ==
    /\ step.op = "loaded"
    /\ step.resp.kind = "flights"
    /\ Throws(Slice0(step.resp.flights, step.req.dataLimit))

\* C25: an exception thrown by rendering inside loadFilteredData is caught
\* and the loading overlay ends hidden; the collection of before the call is
\* not put back: the page holds, and shows, sample data generated for the
\* call's inputs.
C25_RenderFailureHidesLoading ==
    RenderFailed(last) =>
        /\ ~loadingShown
        /\ ~Throws(currentFlightData)
        /\ Len(currentFlightData) = last.req.dataLimit
        /\ MatchesFilters(currentFlightData, last.req)
        /\ view = Rendered(currentFlightData)

\* A filtered load whose response holds a null record, on a page that held
\* two records before.
C25_Witness ==
    /\ RenderFailed(last)
    /\ last.req.toAirport = "JFK"
    /\ Len(currentFlightData) = DefaultLimit + 1
    /\ ~loadingShown

----------------------------------------------------------------------------
(* Airport codes.                                                          *)

\* C26: loadFilteredData uses the entered airport codes in upper case, in the
\* body of the search request and in the records generated on the fallback
\* path alike.
C26_UppercaseEverywhere ==
    last.op = "loaded" =>
        LET req == last.req
        IN  /\ Truthy(req.fromAirport) =>
                  req.body.origin = ToUpperCase(req.fromAirport)
            /\ Truthy(req.toAirport) =>
                  req.body.destination = ToUpperCase(req.toAirport)
            /\ Generates(req, last.resp) =>
                  \A i \in 1..Len(currentFlightData) :
                      /\ Truthy(req.fromAirport) =>
                            currentFlightData[i].origin = ToUpperCase(req.fromAirport)
                      /\ Truthy(req.toAirport) =>
                            currentFlightData[i].destination = ToUpperCase(req.toAirport)

----------------------------------------------------------------------------
(* Times of the generated records.                                         *)

\* C27: in every generated record the arrival time is the departure time
\* plus a whole number of hours from 1 to 6, wrapped at 24 hours: the arrival
\* minute is the departure minute, the arrival hour is the departure hour
\* plus the duration modulo 24, and the hours of the duration field are that
\* duration.
C27_ArrivalIsDeparturePlusHours ==
    genPc = "done" =>
        \A i \in 1..Len(genFlights) :
            LET f == genFlights[i]
            IN  \E hours \in 1..6 :
                  /\ f.arrival_time.minute = f.departure_time.minute
                  /\ f.arrival_time.hour = (f.departure_time.hour + hours) % 24
                  /\ f.duration.hours = hours

----------------------------------------------------------------------------
(* Loads that end after clearFilters, and what a load may overwrite.       *)

\* C28: after clearFilters the collection stays the unfiltered sample set
\* until the user starts another load: a request that was issued before
\* clearFilters and resolves after it does not change the collection.
C28_ClearedUntilNextLoad ==
    [][(last.op = "clear" /\ last'.op \in {"loaded", "initLoaded"}) =>
          /\ currentFlightData' = currentFlightData
          /\ Unfiltered(currentFlightData')]_vars

\* C29: loadFilteredData puts generated sample data into the collection only
\* when the request failed: after a load whose response was ok and carried a
\* flights list, the collection is the records taken from that response.
C29_SampleOnlyOnFailure ==
    (last.op = "loaded" /\ last.resp.kind = "flights") =>
        currentFlightData = Slice0(last.resp.flights, last.req.dataLimit)

\* C30: the four statistics shown are always either the four defaults or the
\* four values computed from the current collection, never a mix.
C30_AllDefaultOrAllComputed ==
    \/ view.stats = dashboardStats
    \/ ~Throws(currentFlightData) /\ view.stats = Computed(currentFlightData)

====
